---- MODULE Spec2Model ----
(***************************************************************************)
(* Travel-request approval workflow: the request lifecycle handlers of the *)
(* travel request controller, the conditional SQL statements of the travel *)
(* request model, the CHECK / FOREIGN KEY constraints of the schema and    *)
(* the e-mail notification service.                                        *)
(*                                                                         *)
(* Every handler is an async function: it runs atomically between two      *)
(* awaits, and each awaited SQL statement is one atomic step of the        *)
(* database.  A handler is therefore modelled as one action per awaited    *)
(* statement; the synchronous checks that follow a statement belong to the *)
(* same action as the statement.  Handlers of different HTTP calls         *)
(* interleave at their awaits.                                             *)
(***************************************************************************)
EXTENDS Integers, Sequences, FiniteSets, Bags, TLC

\* Number of request ids the store hands out (INSERT ... RETURNING id).
MaxRequests == 1
\* Number of HTTP handlers that may be in flight at the same time.
MaxInFlight == 2

(***************************************************************************)
(* Optional values: JavaScript undefined / SQL NULL is the empty set.      *)
(***************************************************************************)
None == {}
Some(v) == {v}
Get(o) == CHOOSE v \in o : TRUE

(***************************************************************************)
(* The users table.  User management is outside the lifecycle handlers and *)
(* the table is constant here.  "ghost" is an id of no row.                *)
(***************************************************************************)
users ==
  [ alice |-> [role |-> "user",     is_active |-> TRUE],
    bob   |-> [role |-> "approver", is_active |-> TRUE],
    carol |-> [role |-> "admin",    is_active |-> TRUE],
    dave  |-> [role |-> "approver", is_active |-> FALSE] ]

UserIds == DOMAIN users
\* Holders of a verified token: req.user = {userId, role}.
Actors == {"alice", "bob", "carol"}
\* The actors that create requests.
Requesters == {"alice", "carol"}
ApproverInputs == UserIds \cup {"ghost"}

findUserById(id) == IF id \in UserIds THEN Some(users[id]) ELSE None

(***************************************************************************)
(* Input domains of the request bodies.                                    *)
(***************************************************************************)
Days == {1, 2}
BudgetInputs == {-1, 0, 1}
TextInputs == {"", "NYC"}
CommentInputs == {None, Some(""), Some(" "), Some("ok")}
\* approve stores comments || null: "" and undefined are stored alike
ApproveCommentInputs == {None, Some("ok")}
RequestIds == 1..MaxRequests

Opt(S) == {None} \cup {Some(v) : v \in S}

\* String.prototype.trim on the strings of CommentInputs.
Trim_Identity(s) == s

Trim(s) == IF s \in {"", " "} THEN "" ELSE s

\* UpdateTravelRequestData: every field optional.
EmptyPatch ==
  [ approver_id |-> None, destination |-> None, departure_date |-> None,
    return_date |-> None, estimated_budget |-> None ]

PatchFields == DOMAIN EmptyPatch

PatchValues(f) ==
  CASE f = "approver_id"      -> ApproverInputs
    [] f = "destination"      -> TextInputs
    [] f = "departure_date"   -> Days
    [] f = "return_date"      -> Days
    [] f = "estimated_budget" -> BudgetInputs

\* Bodies of PUT /:id : the empty body and every body that sets one field.
Patches ==
  {EmptyPatch} \cup
  { [EmptyPatch EXCEPT ![f] = Some(v)] : <<f, v>> \in
      UNION { {<<g, w>> : w \in PatchValues(g)} : g \in PatchFields } }

\* Bodies of POST / .
CreateBodies ==
  [ approver_id : Opt(ApproverInputs), destination : Opt(TextInputs),
    departure_date : Opt(Days), return_date : Opt(Days),
    estimated_budget : Opt(BudgetInputs) ]

(***************************************************************************)
(* State.                                                                  *)
(***************************************************************************)
VARIABLES
  requests,   \* travel_requests table: id -> row, NoRow where no row is
  nextId,     \* next id the table hands out
  clock,      \* CURRENT_TIMESTAMP of the next statement that stores one
  calls,      \* bag of the handlers in flight (suspended at an await)
  mails,      \* per request: the sendMail invocations, in order
  resp        \* the HTTP response written by the last step, NoResp if none

vars == <<requests, nextId, clock, calls, mails, resp>>

NoRow == [status |-> "none"]
NoResp == [code |-> "-"]

Terminal == {"approved", "rejected", "cancelled"}

(***************************************************************************)
(* utils/helpers.ts.  A date is its day number; parseDate maps a day to    *)
(* the instant of its midnight, which is monotone in the day number.       *)
(***************************************************************************)
parseDate(d) == d

isValidDateRange(departureDate, returnDate) ==
  parseDate(returnDate) >= parseDate(departureDate)

(***************************************************************************)
(* config/schema: constraints of travel_requests, checked by the database  *)
(* on every INSERT and UPDATE; a violation makes the statement throw.      *)
(***************************************************************************)
CheckConstraints_NoSelfCheck(row) ==
  /\ row.user_id \in UserIds
  /\ row.approver_id \in UserIds
  /\ row.estimated_budget > 0
  /\ row.return_date >= row.departure_date

CheckConstraints_NoDateCheck(row) ==
  /\ row.user_id \in UserIds
  /\ row.approver_id \in UserIds
  /\ row.estimated_budget > 0
  /\ row.user_id # row.approver_id

CheckConstraints(row) ==
  /\ row.user_id \in UserIds
  /\ row.approver_id \in UserIds
  /\ row.estimated_budget > 0
  /\ row.return_date >= row.departure_date
  /\ row.user_id # row.approver_id

(***************************************************************************)
(* models/travelRequestModel: each operator is one SQL statement applied   *)
(* to the current row (NoRow if the id has no row).  The result is the     *)
(* RETURNING row, None when the WHERE clause matched nothing.              *)
(***************************************************************************)
createTravelRequest_NoSubmittedAt(userId, body, isDraft, now) ==
  [ user_id |-> userId,
    approver_id |-> Get(body.approver_id),
    destination |-> Get(body.destination),
    departure_date |-> Get(body.departure_date),
    return_date |-> Get(body.return_date),
    estimated_budget |-> Get(body.estimated_budget),
    status |-> IF isDraft THEN "draft" ELSE "pending",
    approval_comments |-> None,
    submitted_at |-> 0,
    approved_rejected_at |-> 0 ]

createTravelRequest(userId, body, isDraft, now) ==
  [ user_id |-> userId,
    approver_id |-> Get(body.approver_id),
    destination |-> Get(body.destination),
    departure_date |-> Get(body.departure_date),
    return_date |-> Get(body.return_date),
    estimated_budget |-> Get(body.estimated_budget),
    status |-> IF isDraft THEN "draft" ELSE "pending",
    approval_comments |-> None,
    submitted_at |-> IF isDraft THEN 0 ELSE now,
    approved_rejected_at |-> 0 ]

findTravelRequestById(row) == IF row = NoRow THEN None ELSE Some(row)

\* The JOIN on users drops a row whose user_id or approver_id has no user.
findTravelRequestWithUsers(row) ==
  IF row # NoRow /\ row.user_id \in UserIds /\ row.approver_id \in UserIds
  THEN Some(row) ELSE None

ApplyPatch(row, patch) ==
  [ f \in DOMAIN row |->
      IF f \in PatchFields /\ patch[f] # None THEN Get(patch[f]) ELSE row[f] ]

updateTravelRequest_NoStatusGuard(row, patch) ==
  IF patch = EmptyPatch THEN findTravelRequestById(row)
  ELSE IF row # NoRow THEN Some(ApplyPatch(row, patch))
  ELSE None

updateTravelRequest(row, patch) ==
  IF patch = EmptyPatch THEN findTravelRequestById(row)
  ELSE IF row.status = "draft" THEN Some(ApplyPatch(row, patch))
  ELSE None

submitDraftRequest_NoStatusGuard(row, now) ==
  IF row # NoRow
  THEN Some([row EXCEPT !.status = "pending", !.submitted_at = now])
  ELSE None

submitDraftRequest(row, now) ==
  IF row.status = "draft"
  THEN Some([row EXCEPT !.status = "pending", !.submitted_at = now])
  ELSE None

\* comments || null
OrNull(comments) == IF comments = Some("") THEN None ELSE comments

approveTravelRequest_NoStatusGuard(row, comments, now) ==
  IF row # NoRow
  THEN Some([row EXCEPT !.status = "approved",
                        !.approval_comments = OrNull(comments),
                        !.approved_rejected_at = now])
  ELSE None

approveTravelRequest_NoTimestamp(row, comments, now) ==
  IF row.status = "pending"
  THEN Some([row EXCEPT !.status = "approved",
                        !.approval_comments = OrNull(comments)])
  ELSE None

approveTravelRequest(row, comments, now) ==
  IF row.status = "pending"
  THEN Some([row EXCEPT !.status = "approved",
                        !.approval_comments = OrNull(comments),
                        !.approved_rejected_at = now])
  ELSE None

rejectTravelRequest_NoStatusGuard(row, comments, now) ==
  IF row # NoRow
  THEN Some([row EXCEPT !.status = "rejected",
                        !.approval_comments = comments,
                        !.approved_rejected_at = now])
  ELSE None

rejectTravelRequest_DropsComments(row, comments, now) ==
  IF row.status = "pending"
  THEN Some([row EXCEPT !.status = "rejected",
                        !.approval_comments = None,
                        !.approved_rejected_at = now])
  ELSE None

rejectTravelRequest(row, comments, now) ==
  IF row.status = "pending"
  THEN Some([row EXCEPT !.status = "rejected",
                        !.approval_comments = comments,
                        !.approved_rejected_at = now])
  ELSE None

cancelTravelRequest_NoStatusGuard(row) ==
  IF row # NoRow
  THEN Some([row EXCEPT !.status = "cancelled"])
  ELSE None

cancelTravelRequest(row) ==
  IF row.status = "pending"
  THEN Some([row EXCEPT !.status = "cancelled"])
  ELSE None

deleteTravelRequest_NoStatusGuard(row) == row # NoRow

\* TRUE iff the DELETE removed a row.
deleteTravelRequest(row) == row.status = "draft"

isRequestOwner_AdminToo(row, userId) ==
  row # NoRow /\ (row.user_id = userId \/ users[userId].role = "admin")

isRequestOwner(row, userId) == row # NoRow /\ row.user_id = userId

isRequestApprover_AnyApprover(row, userId) ==
  row # NoRow /\ users[userId].role = "approver"

isRequestApprover(row, userId) == row # NoRow /\ row.approver_id = userId

(***************************************************************************)
(* Handlers in flight and responses.                                       *)
(* A response carries, beside the error kind the handler sends, a record   *)
(* of what happened: the call it answers, the step of the handler that     *)
(* sent it (at: "check" is the step of the first query and the checks on   *)
(* it, "write" the conditional statement, "notify" the notification) and   *)
(* the persisted status of the addressed request when that step ran        *)
(* ("none": no row); for the response that follows a notification, what   *)
(* became of the mail and of its notification_logs row.  No handler reads  *)
(* a response.                                                             *)
(***************************************************************************)
StatusOf(rid) == requests[rid].status

NewCall(op, actor, rid, patch, comments) ==
  [ op |-> op, actor |-> actor, rid |-> rid, patch |-> patch,
    comments |-> comments, pc |-> "write" ]

ResponseOf(c, at, code) ==
  [ code |-> code, op |-> c.op, actor |-> c.actor, rid |-> c.rid,
    patch |-> c.patch, comments |-> c.comments, at |-> at,
    status |-> StatusOf(c.rid), delivery |-> "-", logged |-> "-" ]

\* A response is flushed (sendResponse) before the event loop runs the next
\* callback, so resp holds exactly the response of the step just taken.
Idle == resp = NoResp

CanStart == Idle /\ BagCardinality(calls) < MaxInFlight

Suspend(c) == calls' = calls (+) SetToBag({c})
Resume(c, d) == calls' = (calls (-) SetToBag({c})) (+) SetToBag({d})
Finish(c) == calls' = calls (-) SetToBag({c})

AtWrite(c, op) ==
  Idle /\ c \in BagToSet(calls) /\ c.op = op /\ c.pc = "write"

(***************************************************************************)
(* createRequest: POST /?submit=...                                        *)
(* findUserById reads the constant users table, so the lookup and the      *)
(* INSERT that follows are one step.                                       *)
(***************************************************************************)
\* !requestData[field], for a string and for a number
MissingText(o) == o = None \/ o = Some("")
MissingNumber(o) == o = None \/ o = Some(0)

CreateError_NoSelfCheck(userId, body) ==
  IF \/ body.approver_id = None
     \/ MissingText(body.destination)
     \/ body.departure_date = None
     \/ body.return_date = None
     \/ MissingNumber(body.estimated_budget)
  THEN "MISSING_FIELD"
  ELSE IF ~isValidDateRange(Get(body.departure_date), Get(body.return_date))
  THEN "INVALID_DATE_RANGE"
  ELSE IF Get(body.estimated_budget) <= 0
  THEN "INVALID_BUDGET"
  ELSE IF findUserById(Get(body.approver_id)) = None
  THEN "APPROVER_NOT_FOUND"
  ELSE IF ~Get(findUserById(Get(body.approver_id))).is_active
  THEN "APPROVER_INACTIVE"
  ELSE IF Get(findUserById(Get(body.approver_id))).role \notin {"approver", "admin"}
  THEN "NOT_AN_APPROVER"
  ELSE "OK"

CreateError(userId, body) ==
  IF \/ body.approver_id = None
     \/ MissingText(body.destination)
     \/ body.departure_date = None
     \/ body.return_date = None
     \/ MissingNumber(body.estimated_budget)
  THEN "MISSING_FIELD"
  ELSE IF ~isValidDateRange(Get(body.departure_date), Get(body.return_date))
  THEN "INVALID_DATE_RANGE"
  ELSE IF Get(body.estimated_budget) <= 0
  THEN "INVALID_BUDGET"
  ELSE IF Get(body.approver_id) = userId
  THEN "CANNOT_SELF_APPROVE"
  ELSE IF findUserById(Get(body.approver_id)) = None
  THEN "APPROVER_NOT_FOUND"
  ELSE IF ~Get(findUserById(Get(body.approver_id))).is_active
  THEN "APPROVER_INACTIVE"
  ELSE IF Get(findUserById(Get(body.approver_id))).role \notin {"approver", "admin"}
  THEN "NOT_AN_APPROVER"
  ELSE "OK"

createRequest(userId, body, shouldSubmit) ==
  /\ CanStart
  /\ nextId <= MaxRequests
  /\ LET c == [ NewCall("create", userId, nextId, EmptyPatch, None)
                  EXCEPT !.pc = "notify" ]
         r == [ code |-> CreateError(userId, body), op |-> "create",
                actor |-> userId, rid |-> nextId, body |-> body,
                submit |-> shouldSubmit, at |-> "check" ]
     IN IF CreateError(userId, body) # "OK"
        THEN /\ resp' = r
             /\ UNCHANGED <<requests, nextId, clock, calls, mails>>
        ELSE LET row == createTravelRequest(userId, body, ~shouldSubmit, clock)
             IN IF ~CheckConstraints(row)
                THEN /\ resp' = [r EXCEPT !.code = "SERVER_ERROR", !.at = "write"]
                     /\ UNCHANGED <<requests, nextId, clock, calls, mails>>
                ELSE /\ requests' = [requests EXCEPT ![nextId] = row]
                     /\ nextId' = nextId + 1
                     /\ UNCHANGED mails
                     /\ IF shouldSubmit
                        THEN /\ clock' = clock + 1
                             /\ Suspend(c)
                             /\ resp' = NoResp
                        ELSE /\ resp' = [r EXCEPT !.at = "write"]
                             /\ UNCHANGED <<clock, calls>>

(***************************************************************************)
(* updateRequest: PUT /:id                                                 *)
(***************************************************************************)
UpdateError(existing, userId, patch) ==
  IF existing = NoRow THEN "REQUEST_NOT_FOUND"
  ELSE IF existing.user_id # userId THEN "FORBIDDEN"
  ELSE IF existing.status # "draft" THEN "CANNOT_UPDATE_SUBMITTED"
  ELSE IF /\ (patch.departure_date # None \/ patch.return_date # None)
          /\ ~isValidDateRange(
                IF patch.departure_date # None THEN Get(patch.departure_date)
                ELSE existing.departure_date,
                IF patch.return_date # None THEN Get(patch.return_date)
                ELSE existing.return_date)
  THEN "INVALID_DATE_RANGE"
  ELSE IF patch.estimated_budget # None /\ Get(patch.estimated_budget) <= 0
  THEN "INVALID_BUDGET"
  ELSE "OK"

updateRequest(userId, rid, patch) ==
  /\ CanStart
  /\ LET c == NewCall("update", userId, rid, patch, None)
         e == UpdateError(requests[rid], userId, patch)
     IN IF e # "OK"
        THEN /\ resp' = ResponseOf(c, "check", e)
             /\ UNCHANGED <<requests, nextId, clock, calls, mails>>
        ELSE /\ Suspend(c)
             /\ resp' = NoResp
             /\ UNCHANGED <<requests, nextId, clock, mails>>

updateRequestWrite(c) ==
  /\ AtWrite(c, "update")
  /\ LET updated == updateTravelRequest(requests[c.rid], c.patch)
     IN /\ Finish(c)
        /\ UNCHANGED <<nextId, clock, mails>>
        /\ IF updated = None
           THEN /\ resp' = ResponseOf(c, "write", "UPDATE_FAILED")
                /\ UNCHANGED requests
           ELSE IF ~CheckConstraints(Get(updated))
           THEN /\ resp' = ResponseOf(c, "write", "SERVER_ERROR")
                /\ UNCHANGED requests
           ELSE /\ resp' = ResponseOf(c, "write", "OK")
                /\ requests' = [requests EXCEPT ![c.rid] = Get(updated)]

(***************************************************************************)
(* Owner-only transitions: submit, cancel, delete.                         *)
(***************************************************************************)
OwnerStart(op, userId, rid) ==
  /\ CanStart
  /\ LET c == NewCall(op, userId, rid, EmptyPatch, None)
     IN IF ~isRequestOwner(requests[rid], userId)
        THEN /\ resp' = ResponseOf(c, "check", "FORBIDDEN")
             /\ UNCHANGED <<requests, nextId, clock, calls, mails>>
        ELSE /\ Suspend(c)
             /\ resp' = NoResp
             /\ UNCHANGED <<requests, nextId, clock, mails>>

submitRequest(userId, rid) == OwnerStart("submit", userId, rid)
cancelRequest(userId, rid) == OwnerStart("cancel", userId, rid)
deleteRequest(userId, rid) == OwnerStart("delete", userId, rid)

\* The conditional UPDATE of a transition and what follows it directly:
\* the state-conflict response, or the handler goes on to notify.
Transition(c, written, stamps, conflict) ==
  /\ UNCHANGED <<nextId, mails>>
  /\ IF written = None
     THEN /\ Finish(c)
          /\ resp' = ResponseOf(c, "write", conflict)
          /\ UNCHANGED <<requests, clock>>
     ELSE /\ Resume(c, [c EXCEPT !.pc = "notify"])
          /\ resp' = NoResp
          /\ requests' = [requests EXCEPT ![c.rid] = Get(written)]
          /\ clock' = IF stamps THEN clock + 1 ELSE clock

submitRequestWrite(c) ==
  /\ AtWrite(c, "submit")
  /\ Transition(c, submitDraftRequest(requests[c.rid], clock), TRUE,
                "CANNOT_SUBMIT")

cancelRequestWrite(c) ==
  /\ AtWrite(c, "cancel")
  /\ Transition(c, cancelTravelRequest(requests[c.rid]), FALSE,
                "CANNOT_CANCEL")

deleteRequestWrite(c) ==
  /\ AtWrite(c, "delete")
  /\ Finish(c)
  /\ UNCHANGED <<nextId, clock, mails>>
  /\ IF deleteTravelRequest(requests[c.rid])
     THEN /\ requests' = [requests EXCEPT ![c.rid] = NoRow]
          /\ resp' = ResponseOf(c, "write", "OK")
     ELSE /\ resp' = ResponseOf(c, "write", "CANNOT_DELETE")
          /\ UNCHANGED requests

(***************************************************************************)
(* Decisions: approve, reject.                                             *)
(***************************************************************************)
DecideStart(op, userId, rid, comments) ==
  /\ CanStart
  /\ LET c == NewCall(op, userId, rid, EmptyPatch, comments)
         isApprover == isRequestApprover(requests[rid], userId)
         isAdmin == users[userId].role = "admin"
     IN IF op = "reject" /\ (comments = None \/ Trim(Get(comments)) = "")
        THEN /\ resp' = ResponseOf(c, "check", "COMMENTS_REQUIRED")
             /\ UNCHANGED <<requests, nextId, clock, calls, mails>>
        ELSE IF ~isApprover /\ ~isAdmin
        THEN /\ resp' = ResponseOf(c, "check", "FORBIDDEN")
             /\ UNCHANGED <<requests, nextId, clock, calls, mails>>
        ELSE /\ Suspend(c)
             /\ resp' = NoResp
             /\ UNCHANGED <<requests, nextId, clock, mails>>

approveRequest(userId, rid, comments) ==
  DecideStart("approve", userId, rid, comments)
rejectRequest(userId, rid, comments) ==
  DecideStart("reject", userId, rid, comments)

approveRequestWrite(c) ==
  /\ AtWrite(c, "approve")
  /\ Transition(c, approveTravelRequest(requests[c.rid], c.comments, clock),
                TRUE, "CANNOT_APPROVE")

rejectRequestWrite(c) ==
  /\ AtWrite(c, "reject")
  /\ Transition(c, rejectTravelRequest(requests[c.rid], c.comments, clock),
                TRUE, "CANNOT_REJECT")

(***************************************************************************)
(* services/emailService: after the transition the handler reads the       *)
(* request with its users, awaits one sendMail and one INSERT into         *)
(* notification_logs, and only then writes the success response.           *)
(***************************************************************************)
NotificationType(op) ==
  CASE op \in {"create", "submit"} -> "submission"
    [] op = "approve" -> "approval"
    [] op = "reject"  -> "rejection"
    [] op = "cancel"  -> "cancellation"

Recipient(op, row) ==
  IF op \in {"approve", "reject"} THEN row.user_id ELSE row.approver_id

\* The templates of the submission and of the approval mail evaluate
\* request.estimated_budget.toFixed(2); those of the rejection and of the
\* cancellation mail do not.
UsesToFixed(type) == type \in {"submission", "approval"}

\* sendXNotification(requestWithUsers): findTravelRequestWithUsers, then the
\* template, then one transporter.sendMail (delivered, or it throws), then
\* one logNotification (logged, or its INSERT throws and is swallowed), then
\* the handler sends the success response.  notification_logs is only ever
\* inserted into: the outcome is kept in the response record, the attempt in
\* mails.
\* estimated_budget is declared a number and is a DECIMAL(10, 2) column, which
\* the database driver hands over as a number or as a string: toFixed
\* renders, or it is no function of the value and the template throws before
\* sendEmail is called, outside its try; the handler's catch then answers
\* SERVER_ERROR.
sendEmail(c, rendered, delivered, logged) ==
  /\ Idle /\ c \in BagToSet(calls) /\ c.pc = "notify"
  /\ Finish(c)
  /\ UNCHANGED <<requests, nextId, clock>>
  /\ LET found == findTravelRequestWithUsers(requests[c.rid])
         r == ResponseOf(c, "notify", "OK")
     IN IF found = None
        THEN /\ UNCHANGED mails
             /\ resp' = r
        ELSE IF UsesToFixed(NotificationType(c.op)) /\ ~rendered
        THEN /\ UNCHANGED mails
             /\ resp' = [r EXCEPT !.code = "SERVER_ERROR"]
        ELSE /\ mails' = [mails EXCEPT ![c.rid] = Append(@,
                  [ type |-> NotificationType(c.op),
                    to |-> Recipient(c.op, Get(found)) ])]
             /\ resp' = [r EXCEPT
                  !.delivery = IF delivered THEN "sent" ELSE "failed",
                  !.logged = IF logged THEN "yes" ELSE "no"]

\* res.status(...).json(...): the response leaves the handler.
sendResponse ==
  /\ resp # NoResp
  /\ resp' = NoResp
  /\ UNCHANGED <<requests, nextId, clock, calls, mails>>

(***************************************************************************)
(* The system.                                                             *)
(***************************************************************************)
Init ==
  /\ requests = [r \in RequestIds |-> NoRow]
  /\ nextId = 1
  /\ clock = 1
  /\ calls = EmptyBag
  /\ mails = [r \in RequestIds |-> <<>>]
  /\ resp = NoResp

\* A guard that does not depend on the inputs stands before their choice.
\* Prompt: the steps the server and the database take by themselves.
Prompt ==
  \/ /\ CanStart /\ nextId <= MaxRequests
     /\ \E u \in Requesters, b \in CreateBodies, s \in BOOLEAN :
          createRequest(u, b, s)
  \/ /\ CanStart
     /\ \E u \in Actors, r \in RequestIds, p \in Patches :
          updateRequest(u, r, p)
  \/ /\ CanStart
     /\ \E u \in Actors, r \in RequestIds : submitRequest(u, r)
  \/ /\ CanStart
     /\ \E u \in Actors, r \in RequestIds : cancelRequest(u, r)
  \/ /\ CanStart
     /\ \E u \in Actors, r \in RequestIds : deleteRequest(u, r)
  \/ /\ CanStart
     /\ \E u \in Actors, r \in RequestIds, m \in ApproveCommentInputs :
          approveRequest(u, r, m)
  \/ /\ CanStart
     /\ \E u \in Actors, r \in RequestIds, m \in CommentInputs :
          rejectRequest(u, r, m)
  \/ \E c \in BagToSet(calls) : updateRequestWrite(c)
  \/ \E c \in BagToSet(calls) : submitRequestWrite(c)
  \/ \E c \in BagToSet(calls) : cancelRequestWrite(c)
  \/ \E c \in BagToSet(calls) : deleteRequestWrite(c)
  \/ \E c \in BagToSet(calls) : approveRequestWrite(c)
  \/ \E c \in BagToSet(calls) : rejectRequestWrite(c)
  \/ sendResponse

\* Deliver: the mail server answers a send (or the send fails).
Deliver ==
  \E c \in BagToSet(calls), t \in BOOLEAN, d \in BOOLEAN, l \in BOOLEAN :
    sendEmail(c, t, d, l)

Next == Prompt \/ Deliver

Spec == Init /\ [][Next]_vars

\* The event loop runs every ready handler and the database answers every
\* statement; nothing makes the mail server answer: a send may hang.
LiveSpec == Spec /\ WF_vars(Prompt)

(***************************************************************************)
(* Properties.                                                             *)
(***************************************************************************)
OwnerOps == {"update", "submit", "delete", "cancel"}
DecideOps == {"approve", "reject"}
ClosingOps == {"approve", "reject", "cancel"}

\* The state-conflict kind each handler sends.
ConflictKind(op) ==
  CASE op = "update"  -> "CANNOT_UPDATE_SUBMITTED"
    [] op = "submit"  -> "CANNOT_SUBMIT"
    [] op = "approve" -> "CANNOT_APPROVE"
    [] op = "reject"  -> "CANNOT_REJECT"
    [] op = "cancel"  -> "CANNOT_CANCEL"
    [] op = "delete"  -> "CANNOT_DELETE"

\* The status a closing operation writes.
Closed(op) ==
  CASE op = "approve" -> "approved"
    [] op = "reject"  -> "rejected"
    [] op = "cancel"  -> "cancelled"

Blank(comments) == comments = None \/ Trim(Get(comments)) = ""

\* The content fields of a row (destination stands for every text field).
Content(row) ==
  <<row.approver_id, row.destination, row.departure_date, row.return_date,
    row.estimated_budget>>

\* In a step: the handler c runs its next statement / the handler c starts.
Fired(c) == CopiesIn(c, calls') < CopiesIn(c, calls)
Started(c) == c.pc = "write" /\ CopiesIn(c, calls') > CopiesIn(c, calls)

\* A response to a call on a request (create has no addressed request).
Answered == resp # NoResp /\ resp.op # "create"

\* A terminal row is never changed or removed by a step.
TerminalRecordKept ==
  \A r \in RequestIds :
    requests[r].status \in Terminal => requests'[r] = requests[r]

\* The response of a step to an attempt made on a terminal request.  An
\* update answered at its write passed the draft check of its first step: it
\* began before the request was terminal and is no later attempt.
AnsweredOnTerminal ==
  /\ resp' # NoResp /\ resp'.op # "create"
  /\ resp'.status \in Terminal
  /\ resp'.at = "check" \/ (resp'.at = "write" /\ resp'.op # "update")

\* C1 as stated: once a request is approved, rejected or cancelled, every
\* later update, submit, approve, reject, cancel or delete is refused with
\* the state-conflict kind of the operation or with FORBIDDEN, and the
\* stored record is unchanged and still present.
C1_TerminalRefusedWithConflictOrForbidden ==
  [][ /\ TerminalRecordKept
      /\ AnsweredOnTerminal =>
           resp'.code \in {ConflictKind(resp'.op), "FORBIDDEN"} ]_vars

\* C1 amended: as C1, except that a reject with absent, empty or
\* whitespace-only comments is refused with COMMENTS_REQUIRED, whatever the
\* status of the request; every other attempt on a terminal request is refused
\* with its state-conflict kind or FORBIDDEN; the record is unchanged.
C1_TerminalRefused ==
  [][ /\ TerminalRecordKept
      /\ AnsweredOnTerminal =>
           IF resp'.op = "reject" /\ Blank(resp'.comments)
           THEN resp'.code = "COMMENTS_REQUIRED"
           ELSE resp'.code \in {ConflictKind(resp'.op), "FORBIDDEN"} ]_vars

\* An update of an approved request has been refused and the request is still
\* approved.
C1_Witness ==
  /\ Answered /\ resp.op = "update" /\ resp.status = "approved"
  /\ resp.code = "CANNOT_UPDATE_SUBMITTED"
  /\ requests[resp.rid].status = "approved"

\* C2: of the approve, reject and cancel handlers that reach their
\* conditional write on the same pending request, the first to write takes
\* effect (status, approval_comments and decided_at are the ones it writes)
\* and every one that writes after it changes nothing and is answered with
\* its own state-conflict kind; what the winner wrote is never overwritten.
C2_ExactlyOneCloses ==
  [][ /\ \A c \in BagToSet(calls) :
           (Fired(c) /\ c.pc = "write" /\ c.op \in ClosingOps) =>
             LET old == requests[c.rid]
                 new == requests'[c.rid]
             IN IF old.status = "pending"
                THEN /\ new.status = Closed(c.op)
                     /\ new.approval_comments =
                          (CASE c.op = "approve" -> OrNull(c.comments)
                             [] c.op = "reject"  -> c.comments
                             [] c.op = "cancel"  -> old.approval_comments)
                     /\ new.approved_rejected_at =
                          (IF c.op = "cancel" THEN old.approved_rejected_at
                           ELSE clock)
                     /\ resp' = NoResp
                ELSE old.status \in Terminal =>
                       /\ new = old
                       /\ resp' # NoResp
                       /\ resp'.code = ConflictKind(c.op)
      /\ \A r \in RequestIds :
           requests[r].status \in Terminal =>
             /\ requests'[r].status = requests[r].status
             /\ requests'[r].approval_comments = requests[r].approval_comments
             /\ requests'[r].approved_rejected_at =
                  requests[r].approved_rejected_at ]_vars

\* A reject lost the race against an approve whose handler has not even
\* finished: the approve is still to notify, the reject got CANNOT_REJECT.
C2_Witness ==
  /\ Answered /\ resp.op = "reject" /\ resp.at = "write"
  /\ resp.code = "CANNOT_REJECT"
  /\ requests[resp.rid].status = "approved"
  /\ \E c \in BagToSet(calls) :
       c.op = "approve" /\ c.rid = resp.rid /\ c.pc = "notify"

\* C3: the content fields of a request whose persisted status is not draft
\* are never changed by a step, and the request is not removed.
C3_OnlyDraftMutable ==
  [][ \A r \in RequestIds :
        requests[r].status \notin {"none", "draft"} =>
          /\ requests'[r] # NoRow
          /\ Content(requests'[r]) = Content(requests[r]) ]_vars

\* An update that read a draft wrote after the submit: nothing was changed.
C3_Witness ==
  /\ Answered /\ resp.op = "update" /\ resp.at = "write"
  /\ resp.patch # EmptyPatch
  /\ resp.status = "pending"
  /\ requests[resp.rid].status = "pending"

\* C4: an update of a draft (one that supplies a field) whose status check
\* saw the draft and whose write comes after the commit of a submit is
\* answered with the state-conflict kind CANNOT_UPDATE_SUBMITTED.
C4_LostUpdateIsStateConflict ==
  (Answered /\ resp.op = "update" /\ resp.at = "write"
     /\ resp.patch # EmptyPatch /\ resp.status = "pending")
    => resp.code = "CANNOT_UPDATE_SUBMITTED"

\* C5: an approve, a reject with non-blank comments or a cancel that passed
\* its authorization check and finds the request a draft at its write is
\* answered CANNOT_APPROVE / CANNOT_REJECT / CANNOT_CANCEL, and the request
\* is still a draft, with no approval_comments and no decided_at.
C5_DraftIsNotClosed ==
  [][ \A c \in BagToSet(calls) :
        ( /\ Fired(c) /\ c.pc = "write" /\ c.op \in ClosingOps
          /\ requests[c.rid].status = "draft" )
        => /\ resp' # NoResp
           /\ resp'.code = ConflictKind(c.op)
           /\ requests' = requests
           /\ requests'[c.rid].status = "draft"
           /\ requests'[c.rid].approval_comments = None
           /\ requests'[c.rid].approved_rejected_at = 0 ]_vars

\* The assigned approver's reject of a draft, with comments, was refused.
C5_Witness ==
  /\ Answered /\ resp.op = "reject" /\ resp.at = "write"
  /\ resp.status = "draft" /\ resp.code = "CANNOT_REJECT"
  /\ resp.actor = requests[resp.rid].approver_id
  /\ ~Blank(resp.comments)

\* C6: every stored request has requester_id # approver_id.
C6_ApproverIsNotRequester ==
  \A r \in RequestIds :
    requests[r] # NoRow => requests[r].user_id # requests[r].approver_id

\* The owner's update that sets approver_id to the owner has been answered:
\* the statement threw and the draft keeps its approver.
C6_Witness ==
  /\ Answered /\ resp.op = "update" /\ resp.at = "write"
  /\ resp.patch.approver_id = Some(resp.actor)
  /\ requests[resp.rid].status = "draft"
  /\ requests[resp.rid].user_id = resp.actor

\* C7: every stored request has return_date >= departure_date and
\* estimated_budget > 0.
C7_DatesAndBudgetValid ==
  \A r \in RequestIds :
    requests[r] # NoRow =>
      /\ requests[r].return_date >= requests[r].departure_date
      /\ requests[r].estimated_budget > 0

\* Two updates each changed one date and each passed the controller's check
\* against the other date as read: the write of the second one threw.
C7_Witness ==
  /\ Answered /\ resp.op = "update" /\ resp.at = "write"
  /\ resp.patch.return_date # None
  /\ resp.code = "SERVER_ERROR"
  /\ requests[resp.rid].departure_date > Get(resp.patch.return_date)

\* C8: whenever the write of an approve or reject by a non-admin actor
\* changes the status, the actor is the approver_id of the persisted record
\* at that moment.
C8_DeciderIsApproverAtWrite ==
  [][ \A c \in BagToSet(calls) :
        ( /\ Fired(c) /\ c.pc = "write" /\ c.op \in DecideOps
          /\ requests'[c.rid].status # requests[c.rid].status
          /\ users[c.actor].role # "admin" )
        => c.actor = requests[c.rid].approver_id ]_vars

\* C9: a step of an update, submit, delete or cancel handler changes the
\* stored requests only if the actor is the requester of the addressed
\* request; an actor who is not the requester of an existing request is
\* answered FORBIDDEN by the first step of each of the four handlers, and
\* that step changes no record.
C9_OnlyRequesterMutates ==
  [][ /\ \A c \in BagToSet(calls) :
           (Fired(c) /\ c.op \in OwnerOps /\ requests' # requests)
             => c.actor = requests[c.rid].user_id
      /\ \A c \in BagToSet(calls') :
           (Started(c) /\ c.op \in OwnerOps)
             => c.actor = requests[c.rid].user_id
      /\ ( /\ resp' # NoResp /\ resp'.op \in OwnerOps
           /\ requests[resp'.rid] # NoRow
           /\ resp'.actor # requests[resp'.rid].user_id )
         => /\ resp'.code = "FORBIDDEN"
            /\ resp'.at = "check"
            /\ requests' = requests ]_vars

\* The admin, who is also the assigned approver, was refused the cancel of
\* another user's pending request.
C9_Witness ==
  /\ Answered /\ resp.op = "cancel" /\ resp.code = "FORBIDDEN"
  /\ resp.actor = "carol"
  /\ requests[resp.rid].status = "pending"
  /\ requests[resp.rid].approver_id = "carol"
  /\ requests[resp.rid].user_id = "alice"

\* At the authorization check of a step, actor u may decide request r.
CanDecide(u, r) ==
  \/ requests[r] # NoRow /\ requests[r].approver_id = u
  \/ users[u].role = "admin"

\* Only an approve or reject handler that passed the authorization check
\* reaches its write, and only such a write moves a request to approved or
\* rejected.
OnlyAuthorizedDecide ==
  /\ \A c \in BagToSet(calls') :
       (Started(c) /\ c.op \in DecideOps)
         => CanDecide(c.actor, c.rid)
  /\ \A r \in RequestIds :
       ( /\ requests'[r].status \in {"approved", "rejected"}
         /\ requests[r].status # requests'[r].status )
       => \E c \in BagToSet(calls) :
            Fired(c) /\ c.pc = "write" /\ c.op \in DecideOps /\ c.rid = r

\* The first step of an approve or reject answers an actor who is neither
\* the approver of the existing request nor an admin.
AnsweredUnauthorizedDecide ==
  /\ resp' # NoResp /\ resp'.op \in DecideOps /\ resp'.at = "check"
  /\ requests[resp'.rid] # NoRow
  /\ ~CanDecide(resp'.actor, resp'.rid)

CreateChecks == <<"MISSING_FIELD", "INVALID_DATE_RANGE", "INVALID_BUDGET",
                  "CANNOT_SELF_APPROVE", "APPROVER_NOT_FOUND",
                  "APPROVER_INACTIVE", "NOT_AN_APPROVER">>

FailsCheck(kind, userId, body) ==
  LET a == body.approver_id
      found == a # None /\ findUserById(Get(a)) # None
  IN CASE kind = "MISSING_FIELD" ->
            \/ a = None
            \/ MissingText(body.destination)
            \/ body.departure_date = None
            \/ body.return_date = None
            \/ body.estimated_budget = None
       [] kind = "INVALID_DATE_RANGE" ->
            /\ body.departure_date # None /\ body.return_date # None
            /\ Get(body.return_date) < Get(body.departure_date)
       [] kind = "INVALID_BUDGET" ->
            body.estimated_budget # None /\ Get(body.estimated_budget) <= 0
       [] kind = "CANNOT_SELF_APPROVE" -> a = Some(userId)
       [] kind = "APPROVER_NOT_FOUND" -> a # None /\ findUserById(Get(a)) = None
       [] kind = "APPROVER_INACTIVE" ->
            found /\ ~Get(findUserById(Get(a))).is_active
       [] kind = "NOT_AN_APPROVER" ->
            found /\ Get(findUserById(Get(a))).role \notin {"approver", "admin"}

FailedChecks(userId, body) ==
  {i \in DOMAIN CreateChecks : FailsCheck(CreateChecks[i], userId, body)}

FirstFailedCheck(userId, body) ==
  CreateChecks[CHOOSE i \in FailedChecks(userId, body) :
                 \A j \in FailedChecks(userId, body) : i <= j]

\* A create has been answered by its validation.
CreateAnswered == resp # NoResp /\ resp.op = "create" /\ resp.at = "check"

\* C11: a create whose body fails two or more of the checks is answered with
\* the kind of the first failing check, in the order required fields, date
\* range, budget, self-approval, approver found, approver active, approver
\* role.
C11_FirstFailingCheckAnswers ==
  (CreateAnswered /\ Cardinality(FailedChecks(resp.actor, resp.body)) >= 2)
    => resp.code = FirstFailedCheck(resp.actor, resp.body)

\* The same for the bodies that do not supply a budget of 0.
C11_FirstFailingCheckAnswersNonZeroBudget ==
  ( /\ CreateAnswered
    /\ Cardinality(FailedChecks(resp.actor, resp.body)) >= 2
    /\ resp.body.estimated_budget # Some(0) )
    => resp.code = FirstFailedCheck(resp.actor, resp.body)

\* C12: a create refused by its validation changes neither the stored
\* requests nor the notifications and starts no handler step that could; a
\* body that passes the checks before the self-approval check and names the
\* requester as approver is refused with CANNOT_SELF_APPROVE.
C12_FailedCreatePersistsNothing ==
  [][ (resp' # NoResp /\ resp'.op = "create" /\ resp'.at = "check") =>
        /\ resp'.code # "OK"
        /\ requests' = requests
        /\ mails' = mails
        /\ nextId' = nextId
        /\ calls' = calls
        /\ ( /\ resp'.body.approver_id = Some(resp'.actor)
             /\ ~MissingText(resp'.body.destination)
             /\ resp'.body.departure_date # None
             /\ resp'.body.return_date # None
             /\ resp'.body.estimated_budget # None
             /\ Get(resp'.body.return_date) >= Get(resp'.body.departure_date)
             /\ Get(resp'.body.estimated_budget) > 0 )
           => resp'.code = "CANNOT_SELF_APPROVE" ]_vars

\* A create that names its requester as approver was refused and the store
\* holds no request.
C12_Witness ==
  /\ CreateAnswered /\ resp.code = "CANNOT_SELF_APPROVE"
  /\ resp.body.approver_id = Some(resp.actor)
  /\ \A r \in RequestIds : requests[r] = NoRow /\ mails[r] = <<>>
  /\ calls = EmptyBag

\* Comments that are absent, empty or whitespace-only.
NoComment(comments) == comments \in {None, Some(""), Some(" ")}

\* C13: a reject with absent, empty or whitespace-only comments is answered
\* COMMENTS_REQUIRED by the first step of the handler, whoever the actor is
\* and whatever the request; the step changes no request and the handler
\* never reaches its write.  A pending request has no approval_comments and
\* no decided_at.
C13_BlankRejectRefused ==
  [][ /\ ( /\ resp' # NoResp /\ resp'.op = "reject"
           /\ NoComment(resp'.comments) )
         => /\ resp'.code = "COMMENTS_REQUIRED"
            /\ resp'.at = "check"
            /\ requests' = requests
      /\ \A c \in BagToSet(calls') :
           c.op = "reject" => ~NoComment(c.comments)
      /\ \A r \in RequestIds :
           requests'[r].status = "pending" =>
             /\ requests'[r].approval_comments = None
             /\ requests'[r].approved_rejected_at = 0 ]_vars

\* The assigned approver's reject with whitespace-only comments was refused
\* and the request is still pending.
C13_Witness ==
  /\ Answered /\ resp.op = "reject" /\ resp.comments = Some(" ")
  /\ resp.code = "COMMENTS_REQUIRED"
  /\ requests[resp.rid].status = "pending"
  /\ resp.actor = requests[resp.rid].approver_id

\* C14: every rejected request has approval_comments that are present and
\* not empty or whitespace-only.
C14_RejectedHasComments ==
  \A r \in RequestIds :
    requests[r].status = "rejected" =>
      ~NoComment(requests[r].approval_comments)

\* A request has been rejected, with the comments of the reject call.
C14_Witness ==
  \E r \in RequestIds :
    /\ requests[r].status = "rejected"
    /\ requests[r].approval_comments = Some("ok")
    /\ \E c \in BagToSet(calls) :
         c.op = "reject" /\ c.rid = r /\ c.pc = "notify"

\* C15: a submit whose write finds the request already submitted changes
\* nothing and is answered CANNOT_SUBMIT, and submitted_at of a request that
\* is no longer a draft never changes.
C15_SubmitNotRepeatable ==
  [][ /\ \A c \in BagToSet(calls) :
           ( /\ Fired(c) /\ c.pc = "write" /\ c.op = "submit"
             /\ requests[c.rid].status \notin {"none", "draft"} )
           => /\ requests' = requests
              /\ resp' # NoResp
              /\ resp'.code = "CANNOT_SUBMIT"
      /\ \A r \in RequestIds :
           requests[r].status \notin {"none", "draft"} =>
             /\ requests'[r] # NoRow
             /\ requests'[r].submitted_at = requests[r].submitted_at ]_vars

\* The requester's second submit was refused while the handler of the first
\* one is still in flight; the request is pending.
C15_Witness ==
  /\ Answered /\ resp.op = "submit" /\ resp.at = "write"
  /\ resp.code = "CANNOT_SUBMIT"
  /\ requests[resp.rid].status = "pending"
  /\ requests[resp.rid].user_id = resp.actor
  /\ \E c \in BagToSet(calls) :
       c.op = "submit" /\ c.rid = resp.rid /\ c.pc = "notify"

\* C16: the write of a delete removes the request if it is a draft at that
\* moment, and otherwise changes nothing and is answered CANNOT_DELETE; a
\* request is removed only by the delete of its requester, only as a draft,
\* and a removed request is not found by id again.
C16_DeleteOnlyDraftByRequester ==
  [][ /\ \A c \in BagToSet(calls) :
           (Fired(c) /\ c.pc = "write" /\ c.op = "delete") =>
             IF requests[c.rid].status = "draft"
             THEN /\ findTravelRequestById(requests'[c.rid]) = None
                  /\ resp' # NoResp /\ resp'.code = "OK"
             ELSE /\ requests' = requests
                  /\ resp' # NoResp /\ resp'.code = "CANNOT_DELETE"
      /\ \A r \in RequestIds :
           (requests[r] # NoRow /\ requests'[r] = NoRow) =>
             /\ requests[r].status = "draft"
             /\ \E c \in BagToSet(calls) :
                  /\ Fired(c) /\ c.op = "delete" /\ c.rid = r
                  /\ c.actor = requests[r].user_id
      /\ \A r \in RequestIds :
           (requests[r] = NoRow /\ r < nextId) => requests'[r] = NoRow ]_vars

\* The delete of a request whose submit committed just before the delete's
\* write was refused; the request is present and pending.
C16_Witness ==
  /\ Answered /\ resp.op = "delete" /\ resp.at = "write"
  /\ resp.code = "CANNOT_DELETE"
  /\ requests[resp.rid].status = "pending"
  /\ \E c \in BagToSet(calls) :
       c.op = "submit" /\ c.rid = resp.rid /\ c.pc = "notify"

\* The patch supplies exactly one of the two dates.
OneDate(patch) ==
  (patch.departure_date # None) # (patch.return_date # None)

\* The dates of the row would be out of order with the patch applied.
DatesOutOfOrder(row, patch) ==
  ApplyPatch(row, patch).return_date < ApplyPatch(row, patch).departure_date

\* A step answers the owner's update, with one date, of a request that is a
\* draft when the step runs, and the date does not go with the stored other.
AnsweredBadSingleDate ==
  /\ resp' # NoResp /\ resp'.op = "update"
  /\ OneDate(resp'.patch)
  /\ requests[resp'.rid].status = "draft"
  /\ requests[resp'.rid].user_id = resp'.actor
  /\ DatesOutOfOrder(requests[resp'.rid], resp'.patch)

\* C17: an update of a draft that supplies one date which, with the other
\* date as stored, gives return_date < departure_date is answered
\* INVALID_DATE_RANGE and changes nothing.
C17_SingleDateValidated ==
  [][ AnsweredBadSingleDate =>
        (resp'.code = "INVALID_DATE_RANGE" /\ requests' = requests) ]_vars

\* The same for the updates answered by the step that read the request.
C17_SingleDateValidatedAsRead ==
  [][ (AnsweredBadSingleDate /\ resp'.at = "check") =>
        (resp'.code = "INVALID_DATE_RANGE" /\ requests' = requests) ]_vars

\* Whatever the answer, such an update changes nothing.
C17_BadSingleDateNotStored ==
  [][ AnsweredBadSingleDate => requests' = requests ]_vars

\* C18: each step of the happy path has the stated result: a valid create
\* as draft stores a draft with the values of the body; the requester's
\* submit of the draft makes it pending with submitted_at set; the assigned
\* approver's approve, with non-empty comments, of the pending request makes
\* it approved with decided_at set, submitted_at set and approval_comments
\* equal to the comments.
C18_HappyPath ==
  [][ /\ ( /\ resp' # NoResp /\ resp'.op = "create" /\ resp'.code = "OK"
           /\ resp'.at = "write" /\ ~resp'.submit )
         => /\ requests'[resp'.rid].status = "draft"
            /\ requests'[resp'.rid].user_id = resp'.actor
            /\ Some(requests'[resp'.rid].approver_id) = resp'.body.approver_id
            /\ requests'[resp'.rid].submitted_at = 0
      /\ \A c \in BagToSet(calls) :
           ( /\ Fired(c) /\ c.pc = "write" /\ c.op = "submit"
             /\ requests[c.rid].status = "draft" )
           => /\ requests'[c.rid].status = "pending"
              /\ requests'[c.rid].submitted_at # 0
      /\ \A c \in BagToSet(calls) :
           ( /\ Fired(c) /\ c.pc = "write" /\ c.op = "approve"
             /\ requests[c.rid].status = "pending"
             /\ c.actor = requests[c.rid].approver_id
             /\ ~NoComment(c.comments) )
           => /\ requests'[c.rid].status = "approved"
              /\ requests'[c.rid].approved_rejected_at # 0
              /\ requests'[c.rid].submitted_at # 0
              /\ requests'[c.rid].approval_comments = c.comments ]_vars

\* The end of the happy path: the assigned approver's approve with comments
\* "ok" has been answered while the handler of the submit that made the draft
\* pending is still in flight; the request is approved.
C18_Witness ==
  /\ Answered /\ resp.op = "approve" /\ resp.at = "notify"
  /\ resp.code = "OK" /\ resp.comments = Some("ok")
  /\ requests[resp.rid].status = "approved"
  /\ requests[resp.rid].approver_id = resp.actor
  /\ requests[resp.rid].approval_comments = Some("ok")
  /\ requests[resp.rid].approved_rejected_at # 0
  /\ requests[resp.rid].submitted_at # 0
  /\ \E c \in BagToSet(calls) :
       /\ c.op = "submit" /\ c.rid = resp.rid /\ c.pc = "notify"
       /\ c.actor = requests[resp.rid].user_id

\* A step ends the notification of a committed transition and answers.
NotificationAnswered == resp' # NoResp /\ resp'.at = "notify"

\* C19: whatever becomes of the notification that follows a committed
\* create-as-pending, submit, approve, reject or cancel, the step that ends it
\* leaves the stored request as the transition wrote it and the caller
\* receives the success response.
C19_NotificationFailureNotSurfaced ==
  [][ NotificationAnswered =>
        (requests' = requests /\ resp'.code = "OK") ]_vars

\* The same for the two failures that sendEmail handles: the delivery fails
\* (sendMail throws), the outcome is not recorded (the INSERT throws).
C19_DeliveryFailureNotSurfaced ==
  [][ ( /\ NotificationAnswered
        /\ resp'.delivery = "failed" \/ resp'.logged = "no" )
      => (requests' = requests /\ resp'.code = "OK") ]_vars

\* No outcome of the notification undoes the transition.
C19_NotificationKeepsTransition ==
  [][ NotificationAnswered => requests' = requests ]_vars

\* The transition of a handler is committed and the handler has not yet
\* answered / a handler answers after its transition.
TransitionUnanswered == \E c \in BagToSet(calls) : c.pc = "notify"
TransitionAnswered == resp # NoResp /\ resp.at = "notify"

\* C20: a committed transition is answered whether or not the send of its
\* notification completes: a send that hangs does not hold the response.
C20_SendDoesNotHoldResponse == TransitionUnanswered ~> TransitionAnswered

\* The mail a committed transition of handler c is to trigger.
MailOf(c) ==
  [ type |-> NotificationType(c.op),
    to |-> IF c.op \in {"approve", "reject"} THEN requests[c.rid].user_id
           ELSE requests[c.rid].approver_id ]

\* The step that ends the notification of handler c.
Notified(c) == Fired(c) /\ c.pc = "notify"

\* C21: the notification step of every committed transition makes exactly
\* one delivery attempt, of the kind of the transition and to its recipient
\* (approver for submission and cancellation, requester for approval and
\* rejection); no other step makes a delivery attempt: a refused call makes
\* none and no attempt is repeated.
C21_ExactlyOneDeliveryAttempt ==
  [][ IF \E c \in BagToSet(calls) : Notified(c)
      THEN \A c \in BagToSet(calls) :
             Notified(c) =>
               mails' = [mails EXCEPT ![c.rid] = Append(@, MailOf(c))]
      ELSE mails' = mails ]_vars

\* The same with "at most one": the notification step makes one attempt of
\* the kind and to the recipient of its transition, or none.
C21_AtMostOneDeliveryAttempt ==
  [][ IF \E c \in BagToSet(calls) : Notified(c)
      THEN \A c \in BagToSet(calls) :
             Notified(c) =>
               \/ mails' = [mails EXCEPT ![c.rid] = Append(@, MailOf(c))]
               \/ mails' = mails
      ELSE mails' = mails ]_vars

\* The same for the transitions whose mail does not render the budget.
C21_ExactlyOneAttemptForRejectAndCancel ==
  [][ \A c \in BagToSet(calls) :
        (Notified(c) /\ c.op \in {"reject", "cancel"}) =>
          mails' = [mails EXCEPT ![c.rid] = Append(@, MailOf(c))] ]_vars

\* A call on a request id that has no row when the answering step runs.
AnsweredOnMissing == Answered /\ resp.status = "none"

\* C22: a submit, approve, reject, cancel or delete addressed to an id that
\* has no row is answered REQUEST_NOT_FOUND.
C22_MissingRequestNotFound ==
  (AnsweredOnMissing /\ resp.op \in {"submit", "approve", "reject", "cancel", "delete"})
    => resp.code = "REQUEST_NOT_FOUND"

\* The handler that does look the request up: an update addressed to an id
\* that has no row when the handler reads it is answered REQUEST_NOT_FOUND.
C22_UpdateOfMissingNotFound ==
  (AnsweredOnMissing /\ resp.op = "update" /\ resp.at = "check")
    => resp.code = "REQUEST_NOT_FOUND"

\* What the other handlers answer on an id that has no row: FORBIDDEN, the
\* state-conflict kind of the operation, or COMMENTS_REQUIRED.
C22_MissingRequestAnswers ==
  (AnsweredOnMissing /\ resp.op # "update")
    => resp.code \in {"FORBIDDEN", ConflictKind(resp.op), "COMMENTS_REQUIRED"}

\* A step answers the owner's update of a request that is a draft when the
\* step runs; the update sets approver_id to the owner or to an id of no user.
AnsweredBadApprover ==
  /\ resp' # NoResp /\ resp'.op = "update"
  /\ requests[resp'.rid].status = "draft"
  /\ requests[resp'.rid].user_id = resp'.actor
  /\ resp'.patch.approver_id # None
  /\ \/ resp'.patch.approver_id = Some(resp'.actor)
     \/ findUserById(Get(resp'.patch.approver_id)) = None

\* The validation kinds of the controller.
ValidationKinds ==
  { "MISSING_FIELD", "INVALID_DATE_RANGE", "INVALID_BUDGET",
    "CANNOT_SELF_APPROVE", "APPROVER_NOT_FOUND", "APPROVER_INACTIVE",
    "NOT_AN_APPROVER", "COMMENTS_REQUIRED" }

\* C23: the owner's update of a draft that sets approver_id to the owner's
\* own id or to the id of no user is answered with a validation kind, not
\* with SERVER_ERROR, and the stored record is unchanged.
C23_BadApproverIsValidationError ==
  [][ AnsweredBadApprover =>
        (resp'.code \in ValidationKinds /\ requests' = requests) ]_vars

\* What holds of such an update: it is answered SERVER_ERROR by its write
\* and the stored record is unchanged.
C23_BadApproverIsServerError ==
  [][ AnsweredBadApprover =>
        /\ resp'.code = "SERVER_ERROR" /\ resp'.at = "write"
        /\ requests' = requests ]_vars

(***************************************************************************)
(* controllers/authController: login, POST /api/auth/login.                *)
(* users.email is UNIQUE: the address of a user stands for the user, and   *)
(* the id of a user is used for it.  The handler awaits findUserByEmail    *)
(* and bcrypt.compare; it shares no state with the request handlers and is *)
(* explored by itself, over the same state variables.                      *)
(***************************************************************************)
\* An address the pattern of isValidEmail does not match (it has no "@").
MalformedEmail == "alice.example.org"
\* An address of the right form that no user has.
UnregisteredEmail == "ghost"
EmailInputs == Opt(UserIds \cup {UnregisteredEmail, MalformedEmail}) \cup {Some("")}
PasswordInputs == {None, Some(""), Some("secret"), Some("wrong")}

isValidEmail(email) == email # MalformedEmail

findUserByEmail(email) == IF email \in UserIds THEN Some(email) ELSE None

\* password_hash of every seeded user is the hash of "secret".
bcryptCompare(password, userId) == password = "secret"

\* !email, !password
MissingString(o) == o = None \/ o = Some("")

LoginResponse(c, http, code) ==
  [ op |-> "login", email |-> c.email, password |-> c.password,
    http |-> http, code |-> code ]

\* The checks before the first await; then findUserByEmail is awaited.
login(email, password) ==
  /\ CanStart
  /\ UNCHANGED <<requests, nextId, clock, mails>>
  /\ LET c == [ op |-> "login", email |-> email, password |-> password,
                pc |-> "find" ]
     IN IF MissingString(email) \/ MissingString(password)
        THEN /\ resp' = LoginResponse(c, 400, "MISSING_FIELDS")
             /\ UNCHANGED calls
        ELSE IF ~isValidEmail(Get(email))
        THEN /\ resp' = LoginResponse(c, 400, "INVALID_EMAIL")
             /\ UNCHANGED calls
        ELSE /\ Suspend(c)
             /\ resp' = NoResp

\* findUserByEmail has answered: no user, a deactivated user, or the handler
\* goes on to await bcrypt.compare.
loginFound(c) ==
  /\ Idle /\ c \in BagToSet(calls) /\ c.op = "login" /\ c.pc = "find"
  /\ UNCHANGED <<requests, nextId, clock, mails>>
  /\ LET user == findUserByEmail(Get(c.email))
     IN IF user = None
        THEN /\ Finish(c)
             /\ resp' = LoginResponse(c, 401, "INVALID_CREDENTIALS")
        ELSE IF ~users[Get(user)].is_active
        THEN /\ Finish(c)
             /\ resp' = LoginResponse(c, 401, "ACCOUNT_DEACTIVATED")
        ELSE /\ Resume(c, [c EXCEPT !.pc = "compare"])
             /\ resp' = NoResp

\* bcrypt.compare has answered.
loginCompared(c) ==
  /\ Idle /\ c \in BagToSet(calls) /\ c.op = "login" /\ c.pc = "compare"
  /\ UNCHANGED <<requests, nextId, clock, mails>>
  /\ Finish(c)
  /\ IF bcryptCompare(Get(c.password), Get(findUserByEmail(Get(c.email))))
     THEN resp' = LoginResponse(c, 200, "OK")
     ELSE resp' = LoginResponse(c, 401, "INVALID_CREDENTIALS")

LoginNext ==
  \/ /\ CanStart
     /\ \E e \in EmailInputs, p \in PasswordInputs : login(e, p)
  \/ \E c \in BagToSet(calls) : loginFound(c)
  \/ \E c \in BagToSet(calls) : loginCompared(c)
  \/ sendResponse

LoginSpec == Init /\ [][LoginNext]_vars

\* A login has been answered; its credentials do not authenticate: it is
\* refused and its password is not the password of a user of that address.
LoginRefused ==
  /\ resp # NoResp /\ resp.op = "login" /\ resp.code # "OK"
  /\ \/ MissingString(resp.email) \/ MissingString(resp.password)
     \/ findUserByEmail(Get(resp.email)) = None
     \/ ~bcryptCompare(Get(resp.password), Get(findUserByEmail(Get(resp.email))))

\* The addresses of the stored users.
RegisteredEmails == {Some(u) : u \in UserIds}

\* What a login with an address of no user and the given password is
\* answered (status and error kind).
UnregisteredAnswer(password) ==
  IF MissingString(password) THEN <<400, "MISSING_FIELDS">>
  ELSE <<401, "INVALID_CREDENTIALS">>

\* C24: a login that does not authenticate is answered, whether or not its
\* address is that of a stored user (active or deactivated), with the status
\* and error kind that answer the same login with an address of no user.
C24_LoginHidesRegistration ==
  (LoginRefused /\ resp.email \in RegisteredEmails)
    => <<resp.http, resp.code>> = UnregisteredAnswer(resp.password)

\* A login with an address of no user is answered as UnregisteredAnswer says.
C24_UnregisteredLoginAnswer ==
  (LoginRefused /\ resp.email = Some(UnregisteredEmail))
    => <<resp.http, resp.code>> = UnregisteredAnswer(resp.password)

\* The same as C24 for the addresses of the users that are active.
C24_ActiveLoginHidesRegistration ==
  ( /\ LoginRefused /\ resp.email \in RegisteredEmails
    /\ users[Get(resp.email)].is_active )
    => <<resp.http, resp.code>> = UnregisteredAnswer(resp.password)

\* A step answers a create whose body supplies every required field, dates
\* in order and an active approver or admin other than the requester.
AnsweredCreateValidButBudget ==
  /\ resp' # NoResp /\ resp'.op = "create" /\ resp'.at \in {"check", "write"}
  /\ LET body == resp'.body
     IN /\ body.approver_id # None /\ body.departure_date # None
        /\ body.return_date # None /\ body.estimated_budget # None
        /\ body.destination \notin {None, Some("")}
        /\ Get(body.return_date) >= Get(body.departure_date)
        /\ Get(body.approver_id) # resp'.actor
        /\ Get(body.approver_id) \in UserIds
        /\ users[Get(body.approver_id)].is_active
        /\ users[Get(body.approver_id)].role \in {"approver", "admin"}

\* C25: a create that is valid but for its budget, which is zero or
\* negative, is answered INVALID_BUDGET and stores no request.
C25_NonPositiveBudgetInvalid ==
  [][ (AnsweredCreateValidButBudget /\ Get(resp'.body.estimated_budget) <= 0)
        => (resp'.code = "INVALID_BUDGET" /\ requests' = requests) ]_vars

\* The same for the negative budgets.
C25_NegativeBudgetInvalid ==
  [][ (AnsweredCreateValidButBudget /\ Get(resp'.body.estimated_budget) < 0)
        => (resp'.code = "INVALID_BUDGET" /\ requests' = requests) ]_vars

\* A budget of zero is answered MISSING_FIELD; no request is stored.
C25_ZeroBudgetMissingField ==
  [][ (AnsweredCreateValidButBudget /\ Get(resp'.body.estimated_budget) = 0)
        => (resp'.code = "MISSING_FIELD" /\ requests' = requests) ]_vars

\* C26: every stored request has a non-empty destination (destination
\* stands for purpose as well: the handlers treat the two fields alike).
C26_DestinationNonEmpty ==
  \A r \in RequestIds :
    requests[r] # NoRow => requests[r].destination # ""

\* The part of C26 that concerns creation: a request is stored by create
\* with a non-empty destination.
C26_CreatedDestinationNonEmpty ==
  [][ \A r \in RequestIds :
        (requests[r] = NoRow /\ requests'[r] # NoRow)
          => requests'[r].destination # "" ]_vars

\* The write of the approve or reject handler c changes the status.
Decides(c) ==
  /\ Fired(c) /\ c.pc = "write" /\ c.op \in DecideOps
  /\ requests'[c.rid].status # requests[c.rid].status

\* C27: no request is moved to approved or rejected by the write of a
\* handler whose actor is the requester of the request, whatever the role of
\* the actor.
C27_RequesterNeverDecides ==
  [][ \A c \in BagToSet(calls) :
        Decides(c) => c.actor # requests[c.rid].user_id ]_vars

\* The same for the actors that are not admins.
C27_NonAdminRequesterNeverDecides ==
  [][ \A c \in BagToSet(calls) :
        (Decides(c) /\ users[c.actor].role # "admin")
          => c.actor # requests[c.rid].user_id ]_vars

\* The id of a user that exists, is active and is an approver or an admin.
ValidApprover(id) ==
  /\ findUserById(id) # None
  /\ Get(findUserById(id)).is_active
  /\ Get(findUserById(id)).role \in {"approver", "admin"}

\* C28: the approver_id of every pending request is the id of a user that
\* exists, is active and is an approver or an admin (the users table does not
\* change: what holds of a user now held when the approver_id was written).
C28_PendingApproverValid ==
  \A r \in RequestIds :
    requests[r].status = "pending" => ValidApprover(requests[r].approver_id)

\* The part of C28 that concerns creation: create stores a request only with
\* a valid approver.
C28_CreatedApproverValid ==
  [][ \A r \in RequestIds :
        (requests[r] = NoRow /\ requests'[r] # NoRow)
          => ValidApprover(requests'[r].approver_id) ]_vars

\* C29: in every stored request submitted_at is set exactly when the status
\* is not draft, and approved_rejected_at exactly when the status is approved
\* or rejected (0 is the unset timestamp).
C29_TimestampsAgreeWithStatus ==
  \A r \in RequestIds :
    requests[r] # NoRow =>
      /\ (requests[r].submitted_at # 0) <=> (requests[r].status # "draft")
      /\ (requests[r].approved_rejected_at # 0)
           <=> (requests[r].status \in {"approved", "rejected"})

\* A request created directly as pending has been cancelled: submitted_at is
\* set, approved_rejected_at is not; the cancel is still to notify.
C29_Witness ==
  \E r \in RequestIds :
    /\ requests[r].status = "cancelled"
    /\ requests[r].submitted_at # 0
    /\ requests[r].approved_rejected_at = 0
    /\ mails[r] = <<>>
    /\ \E c \in BagToSet(calls) :
         c.op = "cancel" /\ c.rid = r /\ c.pc = "notify"
    /\ \E c \in BagToSet(calls) :
         c.op = "create" /\ c.rid = r /\ c.pc = "notify"

\* C30: in the delivery attempts made for a request, in the order in which
\* they are made, every approval, rejection or cancellation notification
\* comes after a submission notification.
C30_SubmissionNotifiedFirst ==
  \A r \in RequestIds :
    \A i \in DOMAIN mails[r] :
      mails[r][i].type \in {"approval", "rejection", "cancellation"} =>
        \E j \in 1..(i - 1) : mails[r][j].type = "submission"

====
